---- MODULE Spec2Model ----
(***************************************************************************)
(* Verification model of the JioSaavn and CBN extractors                   *)
(* (yt_dlp/extractor/jiosaavn.py, yt_dlp/extractor/cbn.py).                *)
(*                                                                         *)
(* Every extractor is a small state machine of its own; the module holds   *)
(* one specification per extractor (SpecArtist, SpecPlaylist, ...).  The   *)
(* variables of the extractors a specification does not run stay at their  *)
(* idle values.                                                            *)
(***************************************************************************)
EXTENDS Integers, Sequences, FiniteSets, TLC

(***************************************************************************)
(* Optional values (a missing dict key, Python's None): <<>> or <<x>>.     *)
(***************************************************************************)
None == <<>>
Some(x) == <<x>>
IsSome(o) == o # <<>>
Get(o) == o[1]

RECURSIVE SeqsUpTo(_, _)
\* All sequences over S of length at most n.
SeqsUpTo(S, n) ==
    IF n = 0 THEN {<<>>}
    ELSE LET prev == SeqsUpTo(S, n - 1)
         IN  prev \cup {Append(s, x) : s \in {t \in prev : Len(t) = n - 1}, x \in S}

Max(a, b) == IF a >= b THEN a ELSE b

(***************************************************************************)
(* Bounds of the model.                                                    *)
(***************************************************************************)
\* Artist server: pages whose payload is chosen freely.
MaxHead == 2
\* Artist server: songs of one freely chosen page.
MaxPageSongs == 2
\* Playlist server: digits of list_count.
MaxDigits == 3
\* Enumerations of one paged list.
MaxSlices == 2
\* CBN: elements of a page.
MaxElems == 2
\* Characters of primary_artists.
MaxStrLen == 4
\* Characters of featured_artists.
MaxFeaturedLen == 2
\* Bitrates of the 'bitrate' extractor argument.
MaxBitrates == 2

VARIABLES
    \* JioSaavnArtistIE
    a_pc,          \* position in _real_extract / _generate_result
    a_server,      \* what the API answers for each artist page
    first_page,    \* self._first_page
    page,          \* _generate_result: page
    result,        \* _generate_result: result (the entries' song ids), as runs
    a_fetched,     \* the p parameters of the artist requests, in order, as runs
    \* JioSaavnPlaylistIE and the InAdvancePagedList it returns
    p_pc,          \* position in _real_extract / the enumeration of the list
    list_count,    \* the API's list_count, a string of digits (None: no such key)
    playlist_data, \* _real_extract: playlist_data (the ids of its songs)
    total_pages,   \* _real_extract: total_pages
    pagenum,       \* InAdvancePagedList._getslice: pagenum
    p_cache,       \* InAdvancePagedList._cache: p_cache[i+1] for page i (None: not cached)
    p_entries,     \* the entries the enumeration yielded, as runs
    p_slices,      \* enumerations started
    p_requests,    \* the <<p, n>> parameters of the playlist requests, in order
    \* CBNIE and CBNFamilyIE
    c_pc,          \* position in _real_extract
    c_ie,          \* the extractor that runs: "CBN" or "CBNFamily"
    c_url,         \* the URL, as its path segments
    c_webpage,     \* the page behind the URL: its elements (None: the download fails)
    c_downloads,   \* page downloads made
    c_result,      \* what _real_extract returned
    \* JioSaavnBaseIE._extract_song
    s_pc,          \* "call", "returned" or "raised"
    s_song_data,   \* _extract_song: song_data
    s_url,         \* _extract_song: url
    s_info,        \* _extract_song: info, as returned
    \* JioSaavnBaseIE.requested_bitrates and _extract_formats
    f_pc,          \* position in _extract_formats
    bitrate_arg,   \* the 'bitrate' extractor argument (None: not given)
    f_song_data,   \* _extract_formats: song_data
    f_idx,         \* the bitrate the loop is at
    f_requests,    \* the format-info requests made, in order
    f_responses,   \* the answers to them (None: the request failed)
    f_warnings,    \* the bitrates a warning was reported for
    formats,       \* the formats yielded
    \* JioSaavnSongIE._real_extract, and the _yield_songs that produce its URLs
    g_pc,          \* position: "yield", "entry", "real_extract", "formats", ...
    g_variant,     \* where the URL comes from: "user", or _yield_songs "base"/"show"
    g_song,        \* _yield_songs: song_data (None for a user's URL)
    g_entry,       \* the url_result _yield_songs yielded
    g_url,         \* _real_extract: url, as passed
    g_smuggled,    \* _real_extract: smuggled_data
    g_song_data,   \* _real_extract: song_data (id and encrypted_media_url)
    g_api_calls,   \* the webapi.get requests made: <<type, token>>
    g_result       \* _real_extract: result

artistVars == <<a_pc, a_server, first_page, page, result, a_fetched>>

playlistVars == <<p_pc, list_count, playlist_data, total_pages, pagenum, p_cache,
                  p_entries, p_slices, p_requests>>

cbnVars == <<c_pc, c_ie, c_url, c_webpage, c_downloads, c_result>>

songVars == <<s_pc, s_song_data, s_url, s_info>>

formatVars == <<f_pc, bitrate_arg, f_song_data, f_idx, f_requests, f_responses,
                f_warnings, formats>>

songIEVars == <<g_pc, g_variant, g_song, g_entry, g_url, g_smuggled, g_song_data,
                g_api_calls, g_result>>

vars == <<artistVars, playlistVars, cbnVars, songVars, formatVars, songIEVars>>

(***************************************************************************)
(* JioSaavnArtistIE: _fetch_page, _entries, _generate_result,              *)
(* _real_extract.                                                          *)
(***************************************************************************)

\* while page < 20000
PageLimit == 20000

\* A response to an artist request: the download fails ("fail"), the JSON has
\* no topSongs key ("nokey"), or topSongs is a list; songs[i] tells whether
\* song i carries what _yield_songs reads (a valid perma_url and
\* more_info.encrypted_media_url).
NoPage == [kind |-> "nokey", songs |-> <<>>]
PagePayloads ==
    {[kind |-> "fail", songs |-> <<>>], NoPage}
    \cup {[kind |-> "songs", songs |-> f] : f \in SeqsUpTo(BOOLEAN, MaxPageSongs)}

\* Servers with many pages: one song on each of the first tail pages.
LongTails == {PageLimit - 1, PageLimit, PageLimit + 1}

ArtistServers ==
    {[head |-> h, tail |-> 0] : h \in SeqsUpTo(PagePayloads, MaxHead)}
    \cup {[head |-> <<>>, tail |-> t] : t \in LongTails}

\* The API's answer to p=<p>.
ArtistFetchPage(srv, p) ==
    IF p < Len(srv.head) THEN srv.head[p + 1]
    ELSE IF p < Len(srv.head) + srv.tail THEN [kind |-> "songs", songs |-> <<TRUE>>]
    ELSE [kind |-> "songs", songs |-> <<>>]

\* The id of song i of page p: distinct songs have distinct ids.
SongId(p, i) == p * (MaxPageSongs + 1) + i

\* page_data.get('topSongs') of page p.
TopSongs(p, payload) ==
    [i \in 1..Len(payload.songs) |-> [id |-> SongId(p, i), good |-> payload.songs[i]]]

(***************************************************************************)
(* Lists of numbers that grow to 20000 elements (result, the request log)  *)
(* are stored as runs: [first, step, count] stands for first, first+step,  *)
(* ..., first+(count-1)*step.  A list is only ever built by Push from the  *)
(* empty list, which makes the runs of a list unique: two lists are equal  *)
(* exactly when their runs are.                                            *)
(***************************************************************************)
Single(x) == [first |-> x, step |-> 0, count |-> 1]

\* list.append(x)
Push(runs, x) ==
    IF runs = <<>> THEN <<Single(x)>>
    ELSE LET n == Len(runs)
             r == runs[n]
         IN  IF r.count = 1
             THEN [runs EXCEPT ![n] = [first |-> r.first, step |-> x - r.first, count |-> 2]]
             ELSE IF x = r.first + r.step * r.count
             THEN [runs EXCEPT ![n] = [r EXCEPT !.count = r.count + 1]]
             ELSE Append(runs, Single(x))

RECURSIVE PushAll(_, _)
\* list.extend(xs)
PushAll(runs, xs) ==
    IF xs = <<>> THEN runs ELSE PushAll(Push(runs, Head(xs)), Tail(xs))

RECURSIVE RunsLen(_)
\* len(list)
RunsLen(runs) ==
    IF runs = <<>> THEN 0 ELSE runs[1].count + RunsLen(Tail(runs))

LoopGuardOffByOne(p) == p <= PageLimit
\* while page < 20000
LoopGuard(p) == p < PageLimit

UsesFirstPageNever(p) == FALSE
\* self._first_page if page == 0 else self._fetch_page(token, page)
UsesFirstPage(p) == p = 0

ArtistIdle ==
    /\ a_pc = "idle"
    /\ a_server = [head |-> <<>>, tail |-> 0]
    /\ first_page = NoPage
    /\ page = 0
    /\ result = <<>>
    /\ a_fetched = <<>>

PlaylistIdle ==
    /\ p_pc = "idle"
    /\ list_count = None
    /\ playlist_data = <<>>
    /\ total_pages = 0
    /\ pagenum = 0
    /\ p_cache = <<>>
    /\ p_entries = <<>>
    /\ p_slices = 0
    /\ p_requests = <<>>

CBNIdle ==
    /\ c_pc = "idle"
    /\ c_ie = "none"
    /\ c_url = <<>>
    /\ c_webpage = None
    /\ c_downloads = 0
    /\ c_result = None

SongIdle ==
    /\ s_pc = "idle"
    /\ s_song_data = None
    /\ s_url = None
    /\ s_info = None

FormatsIdle ==
    /\ f_pc = "idle"
    /\ bitrate_arg = None
    /\ f_song_data = None
    /\ f_idx = 0
    /\ f_requests = <<>>
    /\ f_responses = <<>>
    /\ f_warnings = <<>>
    /\ formats = <<>>

SongIEIdle ==
    /\ g_pc = "idle"
    /\ g_variant = "none"
    /\ g_song = None
    /\ g_entry = None
    /\ g_url = None
    /\ g_smuggled = None
    /\ g_song_data = None
    /\ g_api_calls = <<>>
    /\ g_result = None

ArtistFrame == UNCHANGED <<playlistVars, cbnVars, songVars, formatVars, songIEVars>>
PlaylistFrame == UNCHANGED <<artistVars, cbnVars, songVars, formatVars, songIEVars>>
CBNFrame == UNCHANGED <<artistVars, playlistVars, songVars, formatVars, songIEVars>>
SongFrame == UNCHANGED <<artistVars, playlistVars, cbnVars, formatVars, songIEVars>>
FormatsFrame == UNCHANGED <<artistVars, playlistVars, cbnVars, songVars, songIEVars>>
SongIEFrame == UNCHANGED <<artistVars, playlistVars, cbnVars, songVars>>

InitArtist ==
    /\ a_pc = "real_extract"
    /\ a_server \in ArtistServers
    /\ first_page = NoPage
    /\ page = 0
    /\ result = <<>>
    /\ a_fetched = <<>>
    /\ PlaylistIdle
    /\ CBNIdle
    /\ SongIdle
    /\ FormatsIdle
    /\ SongIEIdle

\* _real_extract up to the call of _generate_result, and its first lines.
ArtistRealExtract ==
    /\ a_pc = "real_extract"
    /\ a_fetched' = Push(a_fetched, 0)
    /\ LET d == ArtistFetchPage(a_server, 0)
       IN  IF d.kind = "fail"
           THEN a_pc' = "raised" /\ UNCHANGED first_page
           ELSE a_pc' = "loop" /\ first_page' = d
    /\ page' = 0
    /\ result' = <<>>
    /\ UNCHANGED a_server
    /\ ArtistFrame

\* The loop condition fails: return result.
ArtistLoopExit ==
    /\ a_pc = "loop"
    /\ ~LoopGuard(page)
    /\ a_pc' = "done"
    /\ UNCHANGED <<a_server, first_page, page, result, a_fetched>>
    /\ ArtistFrame

\* One iteration of the loop: entries = list(self._entries(token, page)).
ArtistLoopStep ==
    /\ a_pc = "loop"
    /\ LoopGuard(page)
    /\ a_fetched' = IF UsesFirstPage(page) THEN a_fetched ELSE Push(a_fetched, page)
    /\ LET d == IF UsesFirstPage(page) THEN first_page ELSE ArtistFetchPage(a_server, page)
           songs == TopSongs(page, d)
       IN  IF d.kind # "songs" \/ \E i \in 1..Len(songs) : ~songs[i].good
           THEN a_pc' = "raised" /\ UNCHANGED <<page, result>>
           ELSE IF Len(songs) = 0
           THEN a_pc' = "done" /\ UNCHANGED <<page, result>>
           ELSE /\ result' = PushAll(result, [i \in 1..Len(songs) |-> songs[i].id])
                /\ page' = page + 1
                /\ a_pc' = "loop"
    /\ UNCHANGED <<a_server, first_page>>
    /\ ArtistFrame

NextArtist == ArtistRealExtract \/ ArtistLoopExit \/ ArtistLoopStep

SpecArtist == InitArtist /\ [][NextArtist]_vars

\* The extractor is sequential code: a call that has started runs on (every
\* request ends, with a response or with a failure).
FairSpecArtist == SpecArtist /\ WF_vars(NextArtist)

----
\* The entries of page p as the server holds it.
PageIds(srv, p) ==
    LET d == ArtistFetchPage(srv, p)
    IN  [i \in 1..Len(d.songs) |-> SongId(p, i)]

RECURSIVE HeadIds(_, _)
\* The entries of the pages 0..n-1 of the head.
HeadIds(srv, n) ==
    IF n = 0 THEN <<>> ELSE PushAll(HeadIds(srv, n - 1), PageIds(srv, n - 1))

\* The entries of pages 0..n-1, in page order (n at most the server's pages).
\* Every page of the tail holds one song: after three of them the last run is
\* the run of the tail's ids, and each further page adds one to its count.
EntriesOfPages(srv, n) ==
    LET h == IF n < Len(srv.head) THEN n ELSE Len(srv.head)
        m == n - h
        k == IF m < 3 THEN m ELSE 3
        r == PushAll(HeadIds(srv, h), [j \in 1..k |-> SongId(h + j - 1, 1)])
    IN  IF m = k THEN r
        ELSE [r EXCEPT ![Len(r)] = [r[Len(r)] EXCEPT !.count = r[Len(r)].count + (m - k)]]

\* The list 0, 1, ..., n.
UpTo(n) == IF n = 0 THEN <<Single(0)>> ELSE <<[first |-> 0, step |-> 1, count |-> n + 1]>>

\* Page p holds an empty topSongs list.
EmptyPage(srv, p) ==
    LET d == ArtistFetchPage(srv, p) IN d.kind = "songs" /\ d.songs = <<>>

\* The first empty page of the server: an empty page of the head, or the page
\* that follows the tail.
FirstEmptyPage(srv) ==
    LET E == {p \in 0..(Len(srv.head) - 1) : EmptyPage(srv, p)}
    IN  IF E # {} THEN CHOOSE p \in E : \A q \in E : p <= q
        ELSE Len(srv.head) + srv.tail

\* C1: _generate_result terminates: every run ends, returning or raising.
\* page never exceeds 20000 and every iteration either leaves the loop or
\* adds one to page, so the loop runs at most 20000 iterations (page indices
\* 0..19999); when it returns, it either stopped at the first empty page, or
\* it has evaluated the pages 0..19999, none of them empty.
C1_Terminates ==
    /\ <>(a_pc \in {"done", "raised"})
    /\ [](page <= PageLimit)
    /\ [][a_pc = "loop" => (a_pc' # "loop" \/ (page' = page + 1 /\ page < PageLimit))]_vars
    /\ [](a_pc = "done" =>
            \/ /\ page < PageLimit
               /\ EmptyPage(a_server, page)
               /\ FirstEmptyPage(a_server) = page
            \/ /\ page = PageLimit
               /\ FirstEmptyPage(a_server) >= PageLimit
               /\ a_fetched = UpTo(PageLimit - 1))

\* The loop ran into the ceiling of 20000 pages.
C1_Witness == a_pc = "done" /\ page = PageLimit /\ a_server.tail > PageLimit

\* C9 as stated: the returned entries are those of all pages before the
\* first empty page, every page being requested at most once, page 0 once,
\* and none after the first empty page.
C9_Original ==
    a_pc = "done" =>
        /\ result = EntriesOfPages(a_server, FirstEmptyPage(a_server))
        /\ a_fetched = UpTo(FirstEmptyPage(a_server))

\* C9 (amended): the artist pages are evaluated in the order 0,1,2,...; API
\* page 0 is requested once, in _real_extract, and reused for page index 0;
\* a page p >= 1 is requested at most once, with p=<index>; no page is
\* requested after the first empty page; the returned entries are the
\* concatenation, in page order, of the entries of all pages before the first
\* empty one, or of the pages 0..19999 when none of those is empty.
C9_EntriesInPageOrder ==
    /\ a_pc = "loop" => a_fetched = UpTo(Max(page - 1, 0))
    /\ a_pc = "raised" => a_fetched = UpTo(page)
    /\ a_pc = "done" =>
        /\ result = EntriesOfPages(a_server, page)
        /\ \/ /\ page < PageLimit
              /\ FirstEmptyPage(a_server) = page
              /\ a_fetched = UpTo(page)
           \/ /\ page = PageLimit
              /\ FirstEmptyPage(a_server) >= PageLimit
              /\ a_fetched = UpTo(PageLimit - 1)

\* Two pages with three entries were returned; the third request met the
\* empty page.
C9_Witness ==
    /\ a_pc = "done"
    /\ page = 2
    /\ RunsLen(result) = 3
    /\ a_fetched = UpTo(2)

(***************************************************************************)
(* JioSaavnPlaylistIE: _fetch_page, _entries, _real_extract, and the       *)
(* enumeration of the InAdvancePagedList that _real_extract returns.       *)
(***************************************************************************)

\* _PAGE_SIZE = 50
PlaylistPageSize == 50

\* The digits list_count is written with.
Digits == {0, 1, 5}

ListCounts == {None} \cup {Some(d) : d \in SeqsUpTo(Digits, MaxDigits)}

RECURSIVE ParseInt(_)
\* int(s) of a non-empty string of digits.
ParseInt(s) ==
    IF Len(s) = 1 THEN s[1]
    ELSE 10 * ParseInt(SubSeq(s, 1, Len(s) - 1)) + s[Len(s)]

\* math.ceil(a / b)
CeilDiv(a, b) == (a + b - 1) \div b

\* The ids of the songs the API returns for p=<q>, n=<n> of a playlist of
\* cnt songs (ids 1..cnt).
PlaylistPageSongs(cnt, q, n) ==
    LET lo == (q - 1) * n
        k == IF cnt - lo < 0 THEN 0 ELSE IF cnt - lo > n THEN n ELSE cnt - lo
    IN  [i \in 1..k |-> lo + i]

\* The songs the API holds for the playlist.
SongCount == IF list_count = None \/ Get(list_count) = <<>> THEN 0 ELSE ParseInt(Get(list_count))

EntriesApiPageSame(pg) == pg
\* _entries: self._fetch_page(token, page + 1)
EntriesApiPage(pg) == pg + 1

ReusesFirstPageDataNever(pg) == FALSE
\* _entries: first_page_data if not page
ReusesFirstPageData(pg) == pg = 0

InitPlaylist ==
    /\ p_pc = "real_extract"
    /\ list_count \in ListCounts
    /\ playlist_data = <<>>
    /\ total_pages = 0
    /\ pagenum = 0
    /\ p_cache = <<>>
    /\ p_entries = <<>>
    /\ p_slices = 0
    /\ p_requests = <<>>
    /\ ArtistIdle
    /\ CBNIdle
    /\ SongIdle
    /\ FormatsIdle
    /\ SongIEIdle

\* _real_extract: the first page is fetched, total_pages computed, and the
\* paged list returned.
PlaylistRealExtract ==
    /\ p_pc = "real_extract"
    /\ p_requests' = Append(p_requests, <<1, PlaylistPageSize>>)
    /\ playlist_data' = PlaylistPageSongs(SongCount, 1, PlaylistPageSize)
    /\ IF list_count = None \/ Get(list_count) = <<>>
       THEN \* KeyError, or int('') raises ValueError
            p_pc' = "raised" /\ UNCHANGED <<total_pages, p_cache>>
       ELSE /\ total_pages' = CeilDiv(ParseInt(Get(list_count)), PlaylistPageSize)
            /\ p_cache' = [i \in 1..total_pages' |-> None]
            /\ p_pc' = "paged"
    /\ UNCHANGED <<list_count, pagenum, p_entries, p_slices>>
    /\ PlaylistFrame

\* InAdvancePagedList.getslice(): a full enumeration starts.
PlaylistGetSlice ==
    /\ p_pc \in {"paged", "done"}
    /\ p_slices < MaxSlices
    /\ p_slices' = p_slices + 1
    /\ pagenum' = 0
    /\ p_entries' = <<>>
    /\ p_pc' = "slice"
    /\ UNCHANGED <<list_count, playlist_data, total_pages, p_cache, p_requests>>
    /\ PlaylistFrame

\* _getslice: one iteration of "for pagenum in range(0, self._pagecount)":
\* getpage(pagenum), which calls _entries(pagenum) unless the page is cached.
PlaylistGetPage ==
    /\ p_pc = "slice"
    /\ pagenum < total_pages
    /\ LET cached == p_cache[pagenum + 1] # None
           fetches == ~cached /\ ~(pagenum > total_pages) /\ ~ReusesFirstPageData(pagenum)
           q == EntriesApiPage(pagenum)
           page_results ==
               IF cached THEN Get(p_cache[pagenum + 1])
               ELSE IF pagenum > total_pages THEN <<>>
               ELSE IF ReusesFirstPageData(pagenum) THEN playlist_data
               ELSE PlaylistPageSongs(SongCount, q, PlaylistPageSize)
       IN  /\ p_requests' = IF fetches THEN Append(p_requests, <<q, PlaylistPageSize>>)
                            ELSE p_requests
           /\ p_cache' = [p_cache EXCEPT ![pagenum + 1] = Some(page_results)]
           /\ p_entries' = PushAll(p_entries, page_results)
    /\ pagenum' = pagenum + 1
    /\ UNCHANGED <<p_pc, list_count, playlist_data, total_pages, p_slices>>
    /\ PlaylistFrame

\* _getslice: the range is exhausted.
PlaylistSliceEnd ==
    /\ p_pc = "slice"
    /\ pagenum >= total_pages
    /\ p_pc' = "done"
    /\ UNCHANGED <<list_count, playlist_data, total_pages, pagenum, p_cache,
                   p_entries, p_slices, p_requests>>
    /\ PlaylistFrame

NextPlaylist ==
    PlaylistRealExtract \/ PlaylistGetSlice \/ PlaylistGetPage \/ PlaylistSliceEnd

SpecPlaylist == InitPlaylist /\ [][NextPlaylist]_vars

----
\* The requests p=1..n, each with n=50, in this order.
PlaylistRequests(n) == [q \in 1..n |-> <<q, PlaylistPageSize>>]

\* The list 1, 2, ..., n.
OneTo(n) ==
    IF n = 0 THEN <<>>
    ELSE IF n = 1 THEN <<Single(1)>>
    ELSE <<[first |-> 1, step |-> 1, count |-> n]>>

\* C2: with N = ceil(list_count / 50), a full enumeration of the playlist has
\* requested exactly the API pages 1..max(N,1), each once and with n=50, and
\* at no time a page beyond max(N,1); page 1 is requested in _real_extract
\* only, and page index i >= 1 is served by API page i+1.  A second
\* enumeration requests nothing.
C2_PlaylistPages ==
    LET N == CeilDiv(SongCount, PlaylistPageSize)
    IN  /\ p_pc = "paged" => p_requests = PlaylistRequests(1)
        /\ p_pc = "slice" /\ p_slices = 1 => p_requests = PlaylistRequests(Max(pagenum, 1))
        /\ p_pc = "done" \/ p_slices > 1 => p_requests = PlaylistRequests(Max(N, 1))
        /\ p_pc = "done" => p_entries = OneTo(SongCount)

\* A playlist of four pages was enumerated.
C2_Witness == p_pc = "done" /\ total_pages = 4 /\ Len(p_requests) = 4 /\ RunsLen(p_entries) = 151

(***************************************************************************)
(* CBNBaseIE._extract_brightcove, CBNIE and CBNFamilyIE (cbn.py).          *)
(*                                                                         *)
(* A URL is the sequence of its path segments (the host is cbn.com or      *)
(* secure.cbn.com, as _VALID_URL demands).  An id attribute is a sequence  *)
(* of tokens: "player-", a digit, or other text.                           *)
(***************************************************************************)

\* _VALID_URL of CBNIE: /video/(?:[^/?#]+/)?(?P<id>[^/?&#]+), matched as a prefix.
CBNValidUrl(u) == Len(u) >= 2 /\ u[1] = "video"

\* _match_id of CBNIE: the optional segment is taken when a segment follows it.
CBNMatchId(u) == IF Len(u) >= 3 THEN u[3] ELSE u[2]

\* _VALID_URL of CBNFamilyIE:
\* /partners/video/(shows|impactstories)/[^/?#]+/(?P<id>[^/?&#]+)
CBNFamilyValidUrl(u) ==
    /\ Len(u) >= 5
    /\ u[1] = "partners"
    /\ u[2] = "video"
    /\ u[3] \in {"shows", "impactstories"}

\* _match_id of CBNFamilyIE
CBNFamilyMatchId(u) == u[5]

CBNUrls ==
    {u \in SeqsUpTo({"video", "shows", "6388"}, 3) : CBNValidUrl(u)}

CBNFamilyUrls ==
    {<<"partners", "video", sec, show, id>> :
        sec \in {"shows", "impactstories"}, show \in {"salvations"}, id \in {"6388", "6140"}}
    \cup {<<"partners", "video", "shows", "video", "6140", "6388">>}

DigitTokens == {"7"}

\* The id attributes of the model's elements (None: the element has none).
ElementIds ==
    {None, Some(<<"player-", "7">>), Some(<<"player-", "x">>), Some(<<"x", "player-", "7">>)}

Elements ==
    [tag : {"video-js", "div"}, id : ElementIds, data_video_id : {None, Some("6388"), Some("6140")}]

Webpages == {None} \cup {Some(w) : w \in SeqsUpTo(Elements, MaxElems)}

\* value=r'player-\d+', regex=True: the whole attribute value matches.
PlayerIdRE(v) ==
    /\ Len(v) >= 2
    /\ v[1] = "player-"
    /\ \A i \in 2..Len(v) : v[i] \in DigitTokens

\* find_element(tag='video-js', attr='id', value=r'player-\d+', html=True,
\* regex=True): the first such element, or None.
FindElement(w) ==
    LET M == {i \in 1..Len(w) :
                 /\ w[i].tag = "video-js"
                 /\ w[i].id # None
                 /\ PlayerIdRE(Get(w[i].id))}
    IN  IF M = {} THEN None ELSE Some(w[CHOOSE i \in M : \A j \in M : i <= j])

CBNVideoIdFromUrl(display_id, w) == Some(display_id)
\* CBNIE._real_extract: traverse_obj(webpage, ({find_element(...)},
\* {extract_attributes}, 'data-video-id', {str}))
CBNVideoId(display_id, w) ==
    LET e == FindElement(w)
    IN  IF e = None THEN None ELSE Get(e).data_video_id

\* f'{video_id}'
FormatStr(v) == IF v = None THEN "None" ELSE Get(v)

\* _extract_brightcove: the URL is
\* https://players.brightcove.net/{account}/{player}_{embed}/index.html?videoId={videoId}
ExtractBrightcove(video_id) ==
    [type |-> "url_transparent",
     url |-> [host |-> "players.brightcove.net", account |-> "734546207001",
              player |-> "TADSYViJy", embed |-> "default",
              videoId |-> FormatStr(video_id)],
     ie_key |-> "BrightcoveNew"]

InitCBN ==
    /\ c_pc = "real_extract"
    /\ \/ c_ie = "CBN" /\ c_url \in CBNUrls /\ c_webpage \in Webpages
       \/ c_ie = "CBNFamily" /\ c_url \in CBNFamilyUrls /\ c_webpage = None
    /\ c_downloads = 0
    /\ c_result = None
    /\ ArtistIdle
    /\ PlaylistIdle
    /\ SongIdle
    /\ FormatsIdle
    /\ SongIEIdle

\* CBNIE._real_extract
CBNRealExtract ==
    /\ c_pc = "real_extract"
    /\ c_ie = "CBN"
    /\ c_downloads' = c_downloads + 1
    /\ IF c_webpage = None
       THEN c_pc' = "raised" /\ UNCHANGED c_result
       ELSE /\ c_result' = Some(ExtractBrightcove(CBNVideoId(CBNMatchId(c_url), Get(c_webpage))))
            /\ c_pc' = "done"
    /\ UNCHANGED <<c_ie, c_url, c_webpage>>
    /\ CBNFrame

\* CBNFamilyIE._real_extract
CBNFamilyRealExtract ==
    /\ c_pc = "real_extract"
    /\ c_ie = "CBNFamily"
    /\ c_result' = Some(ExtractBrightcove(Some(CBNFamilyMatchId(c_url))))
    /\ c_pc' = "done"
    /\ UNCHANGED <<c_ie, c_url, c_webpage, c_downloads>>
    /\ CBNFrame

NextCBN == CBNRealExtract \/ CBNFamilyRealExtract

SpecCBN == InitCBN /\ [][NextCBN]_vars

----
\* Element i is the page's first video-js element whose id is player-<digits>.
FirstPlayer(w, i) ==
    /\ w[i].tag = "video-js"
    /\ w[i].id \in {Some(<<"player-", "7">>)}
    /\ \A j \in 1..(i - 1) : ~(w[j].tag = "video-js" /\ w[j].id \in {Some(<<"player-", "7">>)})

\* C3: both CBN extractors return a url_transparent result with ie_key
\* BrightcoveNew and the player URL of account 734546207001, player
\* TADSYViJy_default.  CBNFamilyIE: videoId is the id of the URL and no page
\* is downloaded.  CBNIE: one page is downloaded, and videoId is the
\* data-video-id of the first video-js element whose id is player-<digits>.
C3_Brightcove ==
    /\ c_ie = "CBNFamily" => c_downloads = 0
    /\ c_ie = "CBN" /\ c_pc \in {"done", "raised"} => c_downloads = 1
    /\ c_pc = "done" =>
        LET r == Get(c_result)
        IN  /\ r.type = "url_transparent"
            /\ r.ie_key = "BrightcoveNew"
            /\ r.url.host = "players.brightcove.net"
            /\ r.url.account = "734546207001"
            /\ r.url.player = "TADSYViJy"
            /\ r.url.embed = "default"
            /\ c_ie = "CBNFamily" => r.url.videoId = c_url[5]
            /\ c_ie = "CBN" =>
                 \A i \in 1..Len(Get(c_webpage)) :
                     /\ FirstPlayer(Get(c_webpage), i)
                     /\ Get(c_webpage)[i].data_video_id # None
                     => r.url.videoId = Get(Get(c_webpage)[i].data_video_id)

\* CBNIE took the video id of the second element, which differs from the
\* display id of the URL.
C3_Witness ==
    /\ c_pc = "done"
    /\ c_ie = "CBN"
    /\ c_url = <<"video", "shows", "6388">>
    /\ Len(Get(c_webpage)) = 2
    /\ ~FirstPlayer(Get(c_webpage), 1)
    /\ FirstPlayer(Get(c_webpage), 2)
    /\ Get(c_result).url.videoId = "6140"

(***************************************************************************)
(* JioSaavnBaseIE._extract_song (jiosaavn.py), for the fields id,          *)
(* artists, webpage_url, display_id and _old_archive_ids.                  *)
(*                                                                         *)
(* A URL string is a record: its scheme ("" when it has none), the         *)
(* segments of its path, and its '#' fragments.  The host is left out.     *)
(* An artists string is a sequence of characters.  Other strings (ids,     *)
(* path segments) are strings.                                             *)
(***************************************************************************)

\* The empty string, as a URL string.
EmptyStr == [scheme |-> "", path |-> <<>>, frags |-> <<>>]

Url(path) == [scheme |-> "https", path |-> path, frags |-> <<>>]

\* url_or_none: the string, when it starts with a scheme and '//'.
UrlOrNone(u) == IF u # None /\ Get(u).scheme \in {"http", "https"} THEN u ELSE None

\* url_basename: the last segment of the path ('' when the path is empty).
UrlBasename(u) == IF u.path = <<>> THEN "" ELSE u.path[Len(u.path)]

\* str.lower() of the ie keys used
Lower(k) == IF k = "JioSaavnSong" THEN "jiosaavnsong" ELSE k

\* make_archive_id(ie, video_id): f'{ie_key.lower()} {video_id}'
MakeArchiveId(ie_key, video_id) == [ie |-> Lower(ie_key), id |-> video_id]

RECURSIVE SepAt(_, _)
\* The first position at or after i where ', ' starts in s (0: none).
SepAt(s, i) ==
    IF i + 1 > Len(s) THEN 0
    ELSE IF s[i] = "," /\ s[i + 1] = " " THEN i
    ELSE SepAt(s, i + 1)

RECURSIVE Split(_)
\* s.split(', ')
Split(s) ==
    LET i == SepAt(s, 1)
    IN  IF i = 0 THEN <<s>>
        ELSE <<SubSeq(s, 1, i - 1)>> \o Split(SubSeq(s, i + 2, Len(s)))

\* set(xs)
SetOf(xs) == {xs[i] : i \in 1..Len(xs)}

\* list(S): the elements of a set, in any order.
ListsOf(S) ==
    {l \in [1..Cardinality(S) -> S] : \A x \in S : \E i \in 1..Cardinality(S) : l[i] = x}

\* Truth of an optional string of characters: present and not empty.
Truthy(o) == o # None /\ Get(o) # <<>>

\* The traverse_obj call of _extract_song.
TraverseSong(song_data) ==
    [id |-> song_data.id,
     artists |-> IF Truthy(song_data.primary_artists)
                 THEN Some(Split(Get(song_data.primary_artists)))
                 ELSE None,
     webpage_url |-> UrlOrNone(song_data.perma_url),
     display_id |-> None,
     old_archive_ids |-> None]

WebpageUrlCallerFirst(info, url) ==
    IF url # None /\ Get(url) # EmptyStr THEN url ELSE info.webpage_url
\* info.get('webpage_url') or url
WebpageUrl(info, url) ==
    IF info.webpage_url # None THEN info.webpage_url
    ELSE IF url # None /\ Get(url) # EmptyStr THEN url
    ELSE None

\* if webpage_url := ...: info['display_id'] = ...; info['_old_archive_ids'] = ...
WithDisplayId(info, url) ==
    LET w == WebpageUrl(info, url)
    IN  IF w = None THEN info
        ELSE [info EXCEPT
                 !.display_id = Some(UrlBasename(Get(w))),
                 !.old_archive_ids =
                     Some(<<MakeArchiveId("JioSaavnSong", UrlBasename(Get(w)))>>)]

\* info['artists'].extend(...) raises KeyError when info has no artists.
FeaturedRaises(song_data, info) ==
    Truthy(song_data.featured_artists) /\ info.artists = None

\* if song_data.get('featured_artists'): info['artists'].extend(....split(', '))
WithFeatured(song_data, info) ==
    IF Truthy(song_data.featured_artists)
    THEN [info EXCEPT !.artists = Some(Get(info.artists) \o Split(Get(song_data.featured_artists)))]
    ELSE info

\* if not info.get('artists'): ... info['artists'] = primary_artists
WithArtistMap(song_data, info) ==
    IF (info.artists = None \/ Get(info.artists) = <<>>) /\ song_data.artist_map # <<>>
    THEN [info EXCEPT !.artists = Some(song_data.artist_map)]
    ELSE info

DedupedKeepsAll(info) == {info}
\* if info.get('artists'): info['artists'] = list(set(info['artists']))
\* The order of the list is whatever the set iterates in.
Deduped(info) ==
    IF info.artists = None \/ Get(info.artists) = <<>>
    THEN {info}
    ELSE {[info EXCEPT !.artists = Some(l)] : l \in ListsOf(SetOf(Get(info.artists)))}

\* _extract_song(song_data, url): the outcomes it can have.
ExtractSong(song_data, url) ==
    LET info == WithDisplayId(TraverseSong(song_data), url)
    IN  IF FeaturedRaises(song_data, info)
        THEN {[raised |-> TRUE, info |-> info]}
        ELSE {[raised |-> FALSE, info |-> i] :
                 i \in Deduped(WithArtistMap(song_data, WithFeatured(song_data, info)))}

Chars == {"a", ",", " "}

\* The page URLs of the model's songs.
SongPath == <<"song", "leja-re", "OQsE">>
EpisodePath == <<"shows", "energy", "XFMc">>

BaseSong ==
    [id |-> Some("IcoL"),
     perma_url |-> Some(Url(SongPath)),
     primary_artists |-> None,
     featured_artists |-> None,
     artist_map |-> <<>>,
     encrypted_media_url |-> Some("ID2i"),
     more_info_emu |-> None]

\* Songs whose artists fields vary.
ArtistPayloads ==
    {[BaseSong EXCEPT !.primary_artists = p, !.featured_artists = f, !.artist_map = m] :
        p \in {None} \cup {Some(x) : x \in SeqsUpTo(Chars, MaxStrLen)},
        f \in {None} \cup {Some(x) : x \in SeqsUpTo(Chars, MaxFeaturedLen)},
        m \in {<<>>, << <<"a">> >>, << <<"a">>, <<"a">> >>, << <<"a">>, <<"a", "a">> >>}}

PermaUrls ==
    {None, Some(EmptyStr), Some([scheme |-> "", path |-> SongPath, frags |-> <<>>]),
     Some(Url(<<>>)), Some(Url(SongPath)), Some(Url(EpisodePath))}

CallerUrls == {None, Some(EmptyStr), Some(Url(<<>>)), Some(Url(<<"song", "chuttamalle", "P1Ff">>))}

\* Songs whose perma_url varies.
UrlPayloads ==
    {[BaseSong EXCEPT !.perma_url = u, !.primary_artists = p] :
        u \in PermaUrls, p \in {None, Some(<<"a">>)}}

SongInputs ==
    {<<sd, None>> : sd \in ArtistPayloads} \cup (UrlPayloads \X CallerUrls)

InitSong ==
    /\ s_pc = "call"
    /\ \E in \in SongInputs : s_song_data = Some(in[1]) /\ s_url = in[2]
    /\ s_info = None
    /\ ArtistIdle
    /\ PlaylistIdle
    /\ CBNIdle
    /\ FormatsIdle
    /\ SongIEIdle

\* _extract_song returns.
ExtractSongReturns ==
    /\ s_pc = "call"
    /\ \E o \in ExtractSong(Get(s_song_data), s_url) :
        /\ ~o.raised
        /\ s_info' = Some(o.info)
    /\ s_pc' = "returned"
    /\ UNCHANGED <<s_song_data, s_url>>
    /\ SongFrame

\* _extract_song raises.
ExtractSongRaises ==
    /\ s_pc = "call"
    /\ \E o \in ExtractSong(Get(s_song_data), s_url) : o.raised
    /\ s_pc' = "raised"
    /\ UNCHANGED <<s_song_data, s_url, s_info>>
    /\ SongFrame

NextSong == ExtractSongReturns \/ ExtractSongRaises

SpecSong == InitSong /\ [][NextSong]_vars

----
\* The song has a perma_url that is a valid URL.
HasValidPermaUrl(sd) == sd.perma_url # None /\ Get(sd.perma_url).scheme = "https"

\* The caller passed a URL.
HasCallerUrl(url) == url # None /\ Get(url) # EmptyStr

\* C4: in every record _extract_song returns, display_id and _old_archive_ids
\* are both present or both absent; when present, display_id is the last
\* path segment of perma_url if that is a valid URL and else of the caller's
\* URL, and _old_archive_ids is ['jiosaavnsong ' + display_id]; they are
\* absent exactly when there is neither a valid perma_url nor a caller URL.
C4_DisplayId ==
    s_pc = "returned" =>
        LET sd == Get(s_song_data)
            info == Get(s_info)
            src == IF HasValidPermaUrl(sd) THEN Get(sd.perma_url) ELSE Get(s_url)
        IN  /\ (info.display_id = None) <=> (info.old_archive_ids = None)
            /\ (info.display_id = None) <=> (~HasValidPermaUrl(sd) /\ ~HasCallerUrl(s_url))
            /\ info.display_id # None =>
                /\ Get(info.display_id) = (IF src.path = <<>> THEN "" ELSE src.path[Len(src.path)])
                /\ Get(info.old_archive_ids) =
                       <<[ie |-> "jiosaavnsong", id |-> Get(info.display_id)]>>

\* perma_url and the caller's URL are both valid and differ: perma_url wins.
C4_Witness ==
    /\ s_pc = "returned"
    /\ Get(s_song_data).perma_url = Some(Url(SongPath))
    /\ s_url = Some(Url(<<"song", "chuttamalle", "P1Ff">>))
    /\ Get(s_info).display_id = Some("OQsE")
    /\ Get(s_info).old_archive_ids = Some(<<[ie |-> "jiosaavnsong", id |-> "OQsE"]>>)

\* The names an optional artists string holds.
Names(o) == IF Truthy(o) THEN SetOf(Split(Get(o))) ELSE {}

\* C5: for a song with a non-empty primary_artists string, the returned
\* artists are, as a set, the union of the names of primary_artists and
\* featured_artists, and no name is listed twice; when neither string yields a
\* name, artists are the names of more_info.artistMap.primary_artists, and
\* artists is absent if there are none.
C5_Artists ==
    s_pc = "returned" =>
        LET sd == Get(s_song_data)
            info == Get(s_info)
        IN  /\ Truthy(sd.primary_artists) =>
                /\ info.artists # None
                /\ SetOf(Get(info.artists)) = Names(sd.primary_artists) \cup Names(sd.featured_artists)
                /\ Len(Get(info.artists)) = Cardinality(SetOf(Get(info.artists)))
            /\ ~Truthy(sd.primary_artists) /\ ~Truthy(sd.featured_artists) =>
                IF sd.artist_map = <<>> THEN info.artists = None
                ELSE /\ info.artists # None
                     /\ SetOf(Get(info.artists)) = SetOf(sd.artist_map)

\* 'a, a' and 'a' name one artist, who is listed once.
C5_Witness ==
    /\ s_pc = "returned"
    /\ Get(s_song_data).primary_artists = Some(<<"a", ",", " ", "a">>)
    /\ Get(s_song_data).featured_artists = Some(<<"a">>)
    /\ Get(s_info).artists = Some(<< <<"a">> >>)

\* C11: _extract_song is total: for every song payload, whichever optional
\* fields are present, it returns a record and never raises; a payload with a
\* non-empty featured_artists and an absent or empty primary_artists yields a
\* record whose artists are the featured artists.
C11_ExtractSongTotal ==
    /\ s_pc # "raised"
    /\ s_pc = "returned" =>
        LET sd == Get(s_song_data)
            info == Get(s_info)
        IN  (sd.featured_artists \notin {None, Some(<<>>)}
             /\ sd.primary_artists \in {None, Some(<<>>)}) =>
                /\ info.artists # None
                /\ {Get(info.artists)[i] : i \in 1..Len(Get(info.artists))}
                       = Names(sd.featured_artists)

(***************************************************************************)
(* JioSaavnBaseIE.requested_bitrates and _extract_formats.                 *)
(*                                                                         *)
(* A bitrate is the string of its characters, digits being numbers.        *)
(***************************************************************************)

\* _VALID_BITRATES = {'16', '32', '64', '128', '320'}
ValidBitrates == {<<1, 6>>, <<3, 2>>, <<6, 4>>, <<1, 2, 8>>, <<3, 2, 0>>}

\* The default of self._configuration_arg('bitrate', ['128', '320'], ...)
DefaultBitrates == << <<1, 2, 8>>, <<3, 2, 0>> >>

\* The bitrates an argument is written with.
BitrateSamples == ValidBitrates \cup {<<9, 9, 9>>}

BitrateArgs == {None} \cup {Some(b) : b \in SeqsUpTo(BitrateSamples, MaxBitrates)}

\* self._configuration_arg('bitrate', ['128', '320'], ie_key='JioSaavn')
ConfigurationArg(arg) == IF arg = None THEN DefaultBitrates ELSE Get(arg)

InvalidBitratesNone(rb) == {}
\* set(requested_bitrates) - self._VALID_BITRATES
InvalidBitrates(rb) == SetOf(rb) \ ValidBitrates

\* The answers to a format-info request: None when the download failed
\* (fatal=False), else the JSON's auth_url and type.
MediaResponses ==
    {None}
    \cup {Some([auth_url |-> a, type |-> t]) :
            a \in {None, Some([scheme |-> "", path |-> <<"aac">>, frags |-> <<>>]),
                   Some(Url(<<"aac", "1.mp4">>))},
            t \in {None, Some("mp4"), Some("mp3")}}

\* traverse_obj(media_data, ('auth_url', {url_or_none}))
HasAuthUrl(media_data) == media_data # None /\ UrlOrNone(Get(media_data).auth_url) # None

FormatExtRaw(t) == t
\* 'm4a' if ext == 'mp4' else ext
FormatExt(t) == IF t = Some("mp4") THEN Some("m4a") ELSE t

\* The format _extract_formats yields for a bitrate.
Format(bitrate, media_data) ==
    [url |-> Get(Get(media_data).auth_url),
     ext |-> FormatExt(Get(media_data).type),
     format_id |-> bitrate,
     abr |-> ParseInt(bitrate),
     vcodec |-> "none"]

\* The format-info request of a bitrate.
FormatRequest(song_data, bitrate) ==
    [call |-> "song.generateAuthToken", bitrate |-> bitrate,
     url |-> song_data.encrypted_media_url, video_id |-> song_data.id]

FormatSongs == {[id |-> "IcoL", encrypted_media_url |-> "ID2i"]}

InitFormats ==
    /\ f_pc = "start"
    /\ bitrate_arg \in BitrateArgs
    /\ f_song_data \in {Some(sd) : sd \in FormatSongs}
    /\ f_idx = 0
    /\ f_requests = <<>>
    /\ f_responses = <<>>
    /\ f_warnings = <<>>
    /\ formats = <<>>
    /\ ArtistIdle
    /\ PlaylistIdle
    /\ CBNIdle
    /\ SongIdle
    /\ SongIEIdle

\* for bitrate in self.requested_bitrates: the property is read; it raises
\* ValueError if a requested bitrate is invalid.
FormatsStart ==
    /\ f_pc = "start"
    /\ IF InvalidBitrates(ConfigurationArg(bitrate_arg)) # {}
       THEN f_pc' = "raised" /\ UNCHANGED f_idx
       ELSE f_pc' = "loop" /\ f_idx' = 1
    /\ UNCHANGED <<bitrate_arg, f_song_data, f_requests, f_responses, f_warnings, formats>>

\* One iteration of the loop of _extract_formats.
FormatsStep ==
    /\ f_pc = "loop"
    /\ f_idx <= Len(ConfigurationArg(bitrate_arg))
    /\ LET bitrate == ConfigurationArg(bitrate_arg)[f_idx]
       IN  /\ f_requests' = Append(f_requests, FormatRequest(Get(f_song_data), bitrate))
           /\ \E media_data \in MediaResponses :
                /\ f_responses' = Append(f_responses, media_data)
                /\ IF ~HasAuthUrl(media_data)
                   THEN /\ f_warnings' = Append(f_warnings, bitrate)
                        /\ UNCHANGED formats
                   ELSE /\ formats' = Append(formats, Format(bitrate, media_data))
                        /\ UNCHANGED f_warnings
    /\ f_idx' = f_idx + 1
    /\ UNCHANGED <<f_pc, bitrate_arg, f_song_data>>

\* The loop of _extract_formats is over.
FormatsEnd ==
    /\ f_pc = "loop"
    /\ f_idx > Len(ConfigurationArg(bitrate_arg))
    /\ f_pc' = "done"
    /\ UNCHANGED <<bitrate_arg, f_song_data, f_idx, f_requests, f_responses, f_warnings, formats>>

NextFormats ==
    \/ FormatsStart /\ FormatsFrame
    \/ FormatsStep /\ FormatsFrame
    \/ FormatsEnd /\ FormatsFrame

SpecFormats == InitFormats /\ [][NextFormats]_vars

----
\* C6: without a 'bitrate' argument the requested bitrates are '128' and
\* '320'; if a requested bitrate is not one of '16', '32', '64', '128', '320',
\* reading requested_bitrates raises, and _extract_formats makes no request
\* and yields no format.
C6_Bitrates ==
    /\ bitrate_arg = None /\ f_pc = "done" =>
        [i \in 1..Len(f_requests) |-> f_requests[i].bitrate] = << <<1, 2, 8>>, <<3, 2, 0>> >>
    /\ (bitrate_arg # None /\ \E i \in 1..Len(Get(bitrate_arg)) :
            Get(bitrate_arg)[i] \notin {<<1, 6>>, <<3, 2>>, <<6, 4>>, <<1, 2, 8>>, <<3, 2, 0>>}) =>
        /\ f_pc \in {"start", "raised"}
        /\ f_requests = <<>>
        /\ formats = <<>>
    /\ f_pc = "raised" =>
        \E i \in 1..Len(Get(bitrate_arg)) :
            Get(bitrate_arg)[i] \notin {<<1, 6>>, <<3, 2>>, <<6, 4>>, <<1, 2, 8>>, <<3, 2, 0>>}

\* '128' is valid, '999' is not: the read raised and nothing was requested.
C6_Witness ==
    /\ f_pc = "raised"
    /\ bitrate_arg = Some(<< <<1, 2, 8>>, <<9, 9, 9>> >>)
    /\ f_requests = <<>>

RECURSIVE ExpectedFormats(_, _)
\* The formats of the bitrates whose answer carries a valid auth_url.
ExpectedFormats(rb, resp) ==
    IF rb = <<>> \/ resp = <<>> THEN <<>>
    ELSE LET r == Head(resp)
             ok == r # None /\ Get(r).auth_url # None /\ Get(Get(r).auth_url).scheme = "https"
             rest == ExpectedFormats(Tail(rb), Tail(resp))
         IN  IF ok
             THEN <<[url |-> Get(Get(r).auth_url),
                     ext |-> IF Get(r).type = Some("mp4") THEN Some("m4a") ELSE Get(r).type,
                     format_id |-> Head(rb),
                     abr |-> ParseInt(Head(rb)),
                     vcodec |-> "none"]>> \o rest
             ELSE rest

\* C8: _extract_formats makes one song.generateAuthToken request per
\* requested bitrate, in the requested order; a failed request or an answer
\* without a valid auth_url gives a warning and the loop goes on; the formats
\* are those of the successful bitrates, in order, each with format_id =
\* bitrate, abr = int(bitrate), vcodec 'none', url = auth_url, and ext 'm4a'
\* for type 'mp4' and the type otherwise.
C8_Formats ==
    f_pc \in {"loop", "done"} =>
        LET rb == ConfigurationArg(bitrate_arg)
            n == Len(f_requests)
        IN  /\ n = f_idx - 1
            /\ n <= Len(rb)
            /\ f_pc = "done" => n = Len(rb)
            /\ \A i \in 1..n :
                /\ f_requests[i].call = "song.generateAuthToken"
                /\ f_requests[i].bitrate = rb[i]
            /\ Len(f_responses) = n
            /\ formats = ExpectedFormats(SubSeq(rb, 1, n), f_responses)
            /\ Len(formats) + Len(f_warnings) = n

\* The request for '128' failed, the one for '320' gave an mp4: one warning,
\* one m4a format.
C8_Witness ==
    /\ f_pc = "done"
    /\ bitrate_arg = None
    /\ f_responses[1] = None
    /\ f_warnings = << <<1, 2, 8>> >>
    /\ Len(formats) = 1
    /\ formats[1].format_id = <<3, 2, 0>>
    /\ formats[1].abr = 320
    /\ formats[1].ext = Some("m4a")

(***************************************************************************)
(* JioSaavnSongIE._real_extract, with the _yield_songs of JioSaavnBaseIE   *)
(* and JioSaavnShowPlaylistIE that produce the smuggled URLs it handles.   *)
(*                                                                         *)
(* A '#' fragment of a URL is a record: kind "smuggle" is                  *)
(* __youtubedl_smuggle=<json>, whose JSON object is data (a key that is    *)
(* absent is None); kind "plain" is any other text.                        *)
(***************************************************************************)

\* The empty JSON object
NoData == [id |-> None, encrypted_media_url |-> None]

SmuggleFrag(data) == [kind |-> "smuggle", data |-> data]

PlainFrag == [kind |-> "plain", data |-> NoData]

\* '#__youtubedl_smuggle' in smug_url
HasSmuggle(url) == \E i \in 1..Len(url.frags) : url.frags[i].kind = "smuggle"

\* unsmuggle_url(smug_url, default): the text after the last '#' is parsed;
\* it raises KeyError when that is not the smuggled data.
UnsmuggleUrl(url, default) ==
    IF ~HasSmuggle(url)
    THEN [raised |-> FALSE, url |-> url, data |-> default]
    ELSE LET n == Len(url.frags)
         IN  IF url.frags[n].kind # "smuggle"
             THEN [raised |-> TRUE, url |-> url, data |-> default]
             ELSE [raised |-> FALSE,
                   url |-> [url EXCEPT !.frags = SubSeq(url.frags, 1, n - 1)],
                   data |-> Some(url.frags[n].data)]

\* data.update(idata)
DictUpdate(data, idata) ==
    [k \in DOMAIN data |-> IF idata[k] # None THEN idata[k] ELSE data[k]]

\* smuggle_url(url, data): data the URL already carries is kept, and wins.
SmuggleUrl(url, data) ==
    LET u == UnsmuggleUrl(url, Some(NoData))
    IN  IF u.raised
        THEN [raised |-> TRUE, url |-> url]
        ELSE [raised |-> FALSE,
              url |-> [u.url EXCEPT
                          !.frags = Append(u.url.frags,
                                           SmuggleFrag(DictUpdate(data, Get(u.data))))]]

\* Truth of an optional string: present and not ''.
TruthyStr(o) == o # None /\ Get(o) # ""

\* Truth of an optional URL string: present and not ''.
TruthyUrl(o) == o # None /\ Get(o) # EmptyStr

\* _URL_BASE_RE: https?://(?:www\.)?(?:jio)?saavn\.com
UrlBaseRE(url) == url.scheme \in {"http", "https"}

\* /shows/[^/?#]+/(?P<id>[^/?#]+)(?:#__youtubedl_smuggle=[^/?#]+)?$
SongValidUrl1(url) ==
    /\ UrlBaseRE(url)
    /\ Len(url.path) = 3
    /\ url.path[1] = "shows"
    /\ \/ url.frags = <<>>
       \/ Len(url.frags) = 1 /\ url.frags[1].kind = "smuggle"

\* /song/[^/?#]+/(?P<id>[^/?#]+)
SongValidUrl2(url) ==
    /\ UrlBaseRE(url)
    /\ Len(url.path) >= 3
    /\ url.path[1] = "song"

\* /s/song/(?:[^/?#]+/){3}(?P<id>[^/?#]+)
SongValidUrl3(url) ==
    /\ UrlBaseRE(url)
    /\ Len(url.path) >= 6
    /\ url.path[1] = "s"
    /\ url.path[2] = "song"

\* JioSaavnSongIE.suitable(url)
SongSuitable(url) == SongValidUrl1(url) \/ SongValidUrl2(url) \/ SongValidUrl3(url)

\* self._match_id(url)
SongMatchId(url) ==
    IF SongValidUrl1(url) THEN url.path[3]
    ELSE IF SongValidUrl2(url) THEN url.path[3]
    ELSE url.path[6]

\* The path segments of the model that contain the text 'shows'.
ShowsTexts == {"shows", "best-of-shows"}

\* 'shows' in url
ApiType(url) ==
    IF \E i \in 1..Len(url.path) : url.path[i] \in ShowsTexts THEN "episode" ELSE "song"

\* The result of url_result(url, JioSaavnSongIE, url_transparent=True, **song_info)
UrlResult(url, song_info) ==
    [type |-> "url_transparent", ie_key |-> "JioSaavnSong", url |-> url, info |-> song_info]

SmuggledIdOnly(song_data, emu) == [id |-> song_data.id, encrypted_media_url |-> None]
\* {'id': song_data['id'], 'encrypted_media_url': <emu>}
SmuggledData(song_data, emu) == [id |-> song_data.id, encrypted_media_url |-> emu]

\* The body of the loop of _yield_songs, for a song that passed the filter;
\* emu is the song's encrypted media URL as the variant reads it.
\* It raises KeyError when webpage_url, id or the encrypted media URL is absent.
YieldSong(song_data, emu) ==
    {IF o.raised \/ o.info.webpage_url = None \/ song_data.id = None \/ emu = None
     THEN [kind |-> "raised", entry |-> None]
     ELSE LET u == SmuggleUrl(Get(o.info.webpage_url), SmuggledData(song_data, emu))
          IN  IF u.raised THEN [kind |-> "raised", entry |-> None]
              ELSE [kind |-> "entry", entry |-> Some(UrlResult(u.url, o.info))] :
     o \in ExtractSong(song_data, None)}

\* lambda _, v: v['id'] and v['perma_url']  (a KeyError counts as false)
BaseFilter(v) == TruthyStr(v.id) /\ TruthyUrl(v.perma_url)

\* traverse_obj(smuggled_data, {'id': ('id', {str}), 'encrypted_media_url': (...)})
TraverseSmuggled(smuggled_data) ==
    IF smuggled_data = None THEN NoData ELSE Get(smuggled_data)

\* 'id' in song_data and 'encrypted_media_url' in song_data
HasSmuggledSong(song_data) == song_data.id # None /\ song_data.encrypted_media_url # None

\* The fields of a result.
ResultOf(info) ==
    [id |-> info.id, formats |-> None, artists |-> info.artists,
     webpage_url |-> info.webpage_url, display_id |-> info.display_id,
     old_archive_ids |-> info.old_archive_ids]

\* result = {'id': song_data['id']}
IdResult(id) ==
    [id |-> id, formats |-> None, artists |-> None, webpage_url |-> None,
     display_id |-> None, old_archive_ids |-> None]

Segs == {"OQsE", "best-of-shows"}

\* The URLs a user passes: each matches one of the patterns of _VALID_URL.
UserPaths ==
    {<<"shows", n, i>> : n \in Segs, i \in Segs}
    \cup {<<"song", n, i>> : n \in Segs, i \in Segs}
    \cup {<<"s", "song", "hindi", b, c, i>> : b \in Segs, c \in {"Saathiya"}, i \in Segs}

UserUrls ==
    {Url(p) : p \in UserPaths}
    \cup {[scheme |-> "https", path |-> SongPath,
           frags |-> <<SmuggleFrag([id |-> Some("IcoL"), encrypted_media_url |-> None])>>],
          [scheme |-> "https", path |-> SongPath,
           frags |-> <<SmuggleFrag(NoData), PlainFrag>>]}

\* The perma_url of the songs of a playlist.
PlaylistPermaUrls ==
    {None, Some(EmptyStr), Some([scheme |-> "", path |-> SongPath, frags |-> <<>>]),
     Some(Url(<<>>)), Some(Url(SongPath)), Some(Url(EpisodePath)),
     Some([scheme |-> "https", path |-> SongPath, frags |-> <<PlainFrag>>]),
     Some([scheme |-> "https", path |-> EpisodePath, frags |-> <<PlainFrag>>]),
     Some([scheme |-> "https", path |-> SongPath, frags |-> <<SmuggleFrag(NoData)>>]),
     Some([scheme |-> "https", path |-> SongPath,
           frags |-> <<SmuggleFrag([id |-> Some("Zzzz"), encrypted_media_url |-> None])>>]),
     Some([scheme |-> "https", path |-> SongPath,
           frags |-> <<SmuggleFrag(NoData), PlainFrag>>])}

\* The songs of a playlist.
PlaylistSongs ==
    {[BaseSong EXCEPT !.id = i, !.perma_url = u, !.encrypted_media_url = e,
                      !.more_info_emu = m, !.featured_artists = f] :
        i \in {None, Some(""), Some("IcoL")},
        u \in PlaylistPermaUrls,
        e \in {None, Some(""), Some("ID2i")},
        m \in {None, Some("Mi9x")},
        f \in {None, Some(<<"a">>)}}

\* The answers of the API to a webapi.get request: the download fails, the
\* list is missing or empty, or its first element is a song.
ApiResponses ==
    {[kind |-> "fail", song |-> None], [kind |-> "empty", song |-> None]}
    \cup {[kind |-> "song",
           song |-> Some([BaseSong EXCEPT !.perma_url = u, !.encrypted_media_url = e,
                                          !.more_info_emu = m, !.featured_artists = f])] :
            u \in {None, Some(Url(SongPath))},
            e \in {None, Some(""), Some("ID2i")},
            m \in {None, Some("Mi9x")},
            f \in {None, Some(<<"a">>)}}

InitSongIE ==
    /\ g_variant \in {"user", "base", "show"}
    /\ IF g_variant = "user"
       THEN /\ g_pc = "real_extract"
            /\ g_song = None
            /\ g_url \in {Some(u) : u \in UserUrls}
       ELSE /\ g_pc = "yield"
            /\ g_song \in {Some(sd) : sd \in PlaylistSongs}
            /\ g_url = None
    /\ g_entry = None
    /\ g_smuggled = None
    /\ g_song_data = None
    /\ g_api_calls = <<>>
    /\ g_result = None
    /\ f_pc = "idle"
    /\ bitrate_arg \in {None, Some(<< <<9, 9, 9>> >>)}
    /\ f_song_data = None
    /\ f_idx = 0
    /\ f_requests = <<>>
    /\ f_responses = <<>>
    /\ f_warnings = <<>>
    /\ formats = <<>>
    /\ ArtistIdle
    /\ PlaylistIdle
    /\ CBNIdle
    /\ SongIdle

\* JioSaavnBaseIE._yield_songs, for one song of playlist_data['songs'].
YieldSongsBase ==
    /\ g_pc = "yield"
    /\ g_variant = "base"
    /\ LET song_data == Get(g_song)
       IN  IF ~BaseFilter(song_data)
           THEN g_pc' = "skipped" /\ UNCHANGED g_entry
           ELSE \E o \in YieldSong(song_data, song_data.encrypted_media_url) :
                   /\ g_pc' = o.kind
                   /\ g_entry' = o.entry
    /\ UNCHANGED <<g_variant, g_song, g_url, g_smuggled, g_song_data, g_api_calls, g_result>>
    /\ UNCHANGED formatVars
    /\ SongIEFrame

\* JioSaavnShowPlaylistIE._yield_songs, for one song of playlist_data.
YieldSongsShow ==
    /\ g_pc = "yield"
    /\ g_variant = "show"
    /\ LET song_data == Get(g_song)
       IN  \E o \in YieldSong(song_data, song_data.more_info_emu) :
               /\ g_pc' = o.kind
               /\ g_entry' = o.entry
    /\ UNCHANGED <<g_variant, g_song, g_url, g_smuggled, g_song_data, g_api_calls, g_result>>
    /\ UNCHANGED formatVars
    /\ SongIEFrame

\* The entry is resolved: its URL goes to the extractor its ie_key names, if
\* that extractor is suitable for it.
ResolveEntry ==
    /\ g_pc = "entry"
    /\ IF SongSuitable(Get(g_entry).url)
       THEN g_pc' = "real_extract" /\ g_url' = Some(Get(g_entry).url)
       ELSE g_pc' = "unsuitable" /\ UNCHANGED g_url
    /\ UNCHANGED <<g_variant, g_song, g_entry, g_smuggled, g_song_data, g_api_calls, g_result>>
    /\ UNCHANGED formatVars
    /\ SongIEFrame

\* _real_extract, up to the call of _extract_formats, when the smuggled
\* data holds id and encrypted_media_url.
SongRealExtractSmuggled ==
    /\ g_pc = "real_extract"
    /\ LET u == UnsmuggleUrl(Get(g_url), None)
           song_data == TraverseSmuggled(u.data)
       IN  /\ ~u.raised
           /\ HasSmuggledSong(song_data)
           /\ g_smuggled' = u.data
           /\ g_song_data' = Some(song_data)
           /\ g_result' = Some(IdResult(song_data.id))
           /\ f_song_data' = Some([id |-> Get(song_data.id),
                                   encrypted_media_url |-> Get(song_data.encrypted_media_url)])
    /\ g_pc' = "formats"
    /\ f_pc' = "start"
    /\ UNCHANGED <<g_variant, g_song, g_entry, g_url, g_api_calls>>
    /\ UNCHANGED <<bitrate_arg, f_idx, f_requests, f_responses, f_warnings, formats>>
    /\ SongIEFrame

\* _real_extract, up to the call of _extract_formats, when the metadata is
\* fetched.
SongRealExtractApi ==
    /\ g_pc = "real_extract"
    /\ LET u == UnsmuggleUrl(Get(g_url), None)
           video_id == SongMatchId(u.url)
       IN  /\ ~u.raised
           /\ ~HasSmuggledSong(TraverseSmuggled(u.data))
           /\ g_smuggled' = u.data
           /\ g_api_calls' = Append(g_api_calls, [type |-> ApiType(u.url), token |-> video_id])
           /\ \E resp \in ApiResponses :
                IF resp.kind # "song"
                THEN /\ g_pc' = "raised"
                     /\ UNCHANGED <<g_song_data, g_result, f_pc, f_song_data>>
                ELSE LET api_song == Get(resp.song)
                         emu == IF TruthyStr(api_song.encrypted_media_url)
                                THEN api_song.encrypted_media_url
                                ELSE api_song.more_info_emu
                         song_data == [api_song EXCEPT !.encrypted_media_url = emu]
                     IN  IF emu = None
                         THEN /\ g_pc' = "raised"
                              /\ UNCHANGED <<g_song_data, g_result, f_pc, f_song_data>>
                         ELSE \E o \in ExtractSong(song_data, Some(u.url)) :
                                 /\ g_song_data' =
                                        Some([id |-> song_data.id, encrypted_media_url |-> emu])
                                 /\ IF o.raised
                                    THEN /\ g_pc' = "raised"
                                         /\ UNCHANGED <<g_result, f_pc, f_song_data>>
                                    ELSE /\ g_pc' = "formats"
                                         /\ g_result' = Some(ResultOf(o.info))
                                         /\ f_pc' = "start"
                                         /\ f_song_data' =
                                                Some([id |-> Get(song_data.id),
                                                      encrypted_media_url |-> Get(emu)])
    /\ UNCHANGED <<g_variant, g_song, g_entry, g_url>>
    /\ UNCHANGED <<bitrate_arg, f_idx, f_requests, f_responses, f_warnings, formats>>
    /\ SongIEFrame

\* unsmuggle_url raises.
SongRealExtractRaises ==
    /\ g_pc = "real_extract"
    /\ UnsmuggleUrl(Get(g_url), None).raised
    /\ g_pc' = "raised"
    /\ UNCHANGED <<g_variant, g_song, g_entry, g_url, g_smuggled, g_song_data, g_api_calls,
                   g_result>>
    /\ UNCHANGED formatVars
    /\ SongIEFrame

\* result['formats'] = list(self._extract_formats(song_data)); return result
SongRealExtractReturn ==
    /\ g_pc = "formats"
    /\ f_pc \in {"done", "raised"}
    /\ IF f_pc = "done"
       THEN /\ g_result' = Some([Get(g_result) EXCEPT !.formats = Some(formats)])
            /\ g_pc' = "done"
       ELSE /\ g_pc' = "raised"
            /\ UNCHANGED g_result
    /\ UNCHANGED <<g_variant, g_song, g_entry, g_url, g_smuggled, g_song_data, g_api_calls>>
    /\ UNCHANGED formatVars
    /\ SongIEFrame

NextSongIE ==
    \/ YieldSongsBase
    \/ YieldSongsShow
    \/ ResolveEntry
    \/ SongRealExtractSmuggled
    \/ SongRealExtractApi
    \/ SongRealExtractRaises
    \/ SongRealExtractReturn
    \/ NextFormats

SpecSongIE == InitSongIE /\ [][NextSongIE]_vars

----
\* The encrypted media URL of a playlist's song, as the variant reads it.
SongEmu == IF g_variant = "show" THEN Get(g_song).more_info_emu ELSE Get(g_song).encrypted_media_url

\* _real_extract has handled the URL of an entry that _yield_songs made of a
\* song whose id and encrypted media URL are non-empty strings.
EntryHandled ==
    /\ g_variant \in {"base", "show"}
    /\ g_pc \in {"formats", "done", "raised"}
    /\ g_entry # None
    /\ g_url = Some(Get(g_entry).url)
    /\ Get(g_song).id \notin {None, Some("")}
    /\ SongEmu \notin {None, Some("")}

\* The song's data came back, no metadata was requested, and a result that
\* was returned holds only id and formats.
RoundTrip ==
    /\ g_song_data = Some([id |-> Get(g_song).id, encrypted_media_url |-> SongEmu])
    /\ g_api_calls = <<>>
    /\ g_pc = "done" =>
        /\ {k \in DOMAIN Get(g_result) : Get(g_result)[k] # None} = {"id", "formats"}
        /\ Get(g_result).id = Get(g_song).id

\* The metadata API is called only when the smuggled data lacks id or
\* encrypted_media_url.
ApiOnlyWithoutData ==
    g_api_calls # <<>> =>
        \/ g_smuggled = None
        \/ Get(g_smuggled).id = None
        \/ Get(g_smuggled).encrypted_media_url = None

\* The song's perma_url carries no smuggled id or encrypted_media_url.
PermaUrlCarriesNone ==
    \A i \in 1..Len(Get(Get(g_song).perma_url).frags) :
        LET f == Get(Get(g_song).perma_url).frags[i]
        IN  f.kind = "smuggle" => f.data.id = None /\ f.data.encrypted_media_url = None

\* C7 as stated: for every entry _yield_songs makes of a song whose id and
\* encrypted media URL are non-empty strings, _real_extract recovers exactly
\* that id and encrypted media URL, makes no webapi.get request and returns
\* only id and formats; the API is called only when the smuggled data lacks
\* id or encrypted_media_url.
C7_Original ==
    /\ EntryHandled => RoundTrip
    /\ ApiOnlyWithoutData

\* C7: the same, for songs whose perma_url does not already carry a smuggled
\* id or encrypted_media_url.
C7_SmuggleRoundTrip ==
    /\ EntryHandled /\ PermaUrlCarriesNone => RoundTrip
    /\ ApiOnlyWithoutData

\* An episode of a show went through: its data came from more_info, no API
\* request was made and the result holds id and formats.
C7_Witness ==
    /\ g_variant = "show"
    /\ g_pc = "done"
    /\ Get(g_song).id = Some("IcoL")
    /\ Get(g_song).more_info_emu = Some("Mi9x")
    /\ Get(g_song).encrypted_media_url = Some("ID2i")
    /\ Get(g_entry).url.frags =
           <<[kind |-> "smuggle",
              data |-> [id |-> Some("IcoL"), encrypted_media_url |-> Some("Mi9x")]]>>
    /\ g_song_data = Some([id |-> Some("IcoL"), encrypted_media_url |-> Some("Mi9x")])
    /\ g_api_calls = <<>>
    /\ Get(g_result).id = Some("IcoL")
    /\ Get(g_result).formats # None
    /\ Get(g_result).webpage_url = None

\* C10: when the metadata is fetched, the request has type 'episode' exactly
\* when the URL matched /shows/<name>/<id>, and type 'song' for every URL
\* that matched /song/<name>/<id> or /s/song/<a>/<b>/<c>/<id>, whatever the
\* name and id segments contain; a missing top-level encrypted_media_url is
\* taken from more_info.encrypted_media_url.
C10_ApiTypeFollowsPattern ==
    g_api_calls # <<>> =>
        LET path == Get(g_url).path
            isShows == path[1] = "shows" /\ Len(path) = 3
        IN  /\ Len(g_api_calls) = 1
            /\ g_api_calls[1].type = (IF isShows THEN "episode" ELSE "song")
            /\ g_api_calls[1].token = (IF path[1] = "s" THEN path[6] ELSE path[3])

====
